---- MODULE Spec2Model ----
(***************************************************************************)
(* State-machine model of the Flask/MongoDB blog API in src/app.py.        *)
(*                                                                         *)
(* The server runs one handler invocation per request, several at a time.  *)
(* Every call on the MongoDB driver (find_one, find, insert_one,           *)
(* update_one, delete_one) is one atomic step; the code between two driver *)
(* calls is local to the request and is folded into the step of the driver *)
(* call that follows it (or, for the tail of a handler, precedes it).      *)
(* A handler that makes a single driver call is therefore a single action; *)
(* register, update_blog and delete_blog make several and are split at the *)
(* driver calls, with the request's local variables kept in frame[p].      *)
(*                                                                         *)
(* The libraries are modelled by what app.py relies on: pymongo's find_one *)
(* returns the first match in natural order, update_one and delete_one act *)
(* on the first match and never insert; bcrypt hashes with a salt and      *)
(* verifies by re-hashing; flask_jwt_extended is used with its default     *)
(* callbacks (app.py overrides none), which answer 401 to a request with   *)
(* no token or an expired one and 422 to a token that does not decode.     *)
(*                                                                         *)
(* last holds the request that the latest step answered and its response   *)
(* (NoLast after a step that answered none), so that a property can relate *)
(* a response to the stores before and after the step that produced it.    *)
(***************************************************************************)
EXTENDS Integers, Sequences, FiniteSets, TLC

\* ------------------------------------------------------------------ bounds
NumProcs == 2      \* requests that may be in flight at once
MaxUsers == 2      \* documents ever inserted into users
MaxBlogs == 2      \* ObjectIds ever generated for blogs
MaxClock == 1      \* ticks of the wall clock
TokenTTL == 1      \* ticks an access token lives (the library's 15 minutes)
NumSalts == 2      \* distinct bcrypt salts

Procs == 1..NumProcs

\* ------------------------------------------------------------ input values
MISSING == "<missing>"           \* the key is absent from the JSON body
Usernames == {"alice", "bob"}
Emails == {"a@x.com", "b@x.com"}
Passwords == {"pw1", "pw2"}

NoBody ==
    [username |-> MISSING, email |-> MISSING, password |-> MISSING,
     title |-> MISSING, content |-> MISSING, author |-> MISSING]

\* The bodies requests are drawn from: every well-formed body over the values
\* above, one body per field that is absent and per field that is empty, and
\* the empty body.
Defect(body, field, v) == [body EXCEPT ![field] = v]

RegisterBodies ==
    LET ok(u, e, w) == [NoBody EXCEPT !.username = u, !.email = e, !.password = w]
    IN {ok(u, e, w) : u \in Usernames, e \in Emails, w \in Passwords}
         \cup {Defect(ok("alice", "a@x.com", "pw1"), f, v) :
                  f \in {"username", "email", "password"}, v \in {MISSING, ""}}
         \cup {NoBody}

LoginBodies ==
    LET ok(u, w) == [NoBody EXCEPT !.username = u, !.password = w]
    IN {ok(u, w) : u \in Usernames, w \in Passwords}
         \cup {Defect(ok("alice", "pw1"), f, v) :
                  f \in {"username", "password"}, v \in {MISSING, ""}}
         \cup {NoBody}

GoodBlogBodies ==
    {[NoBody EXCEPT !.title = "T1", !.content = "C1"],
     [NoBody EXCEPT !.title = "T2", !.content = "C2"]}

ProbeBody == [NoBody EXCEPT !.title = "T2", !.content = "C2"]

BlogBodies ==
    GoodBlogBodies
        \cup {Defect(ProbeBody, f, v) : f \in {"title", "content"}, v \in {MISSING, ""}}
        \cup {NoBody}

\* A create body may carry an 'author' of its own.
CreateBodies == BlogBodies \cup {Defect(b, "author", "bob") : b \in GoodBlogBodies}

\* A path id is a string; wf says whether it is 24 hex digits (or 12 bytes),
\* and n is the ObjectId those digits spell.
BadId == [wf |-> FALSE, n |-> 0]
PathIds == {BadId} \cup {[wf |-> TRUE, n |-> k] : k \in 1..MaxBlogs}

\* A request that the token check turns away is drawn with this path id and
\* with ProbeBody: the handler never reads either.
ProbeId == [wf |-> TRUE, n |-> 1]

\* A bearer token as the client holds it.
NoToken == [kind |-> "none", sub |-> "", iat |-> 0]
ForgedToken == [kind |-> "forged", sub |-> "alice", iat |-> 0]

NoBlog == [_id |-> 0, title |-> "", content |-> "", author |-> "", timestamp |-> 0]

VARIABLES
    users,       \* mongo.db.users: documents in natural (insertion) order
    blogs,       \* mongo.db.blogs: documents in natural (insertion) order
    nextId,      \* the next ObjectId the driver generates
    clock,       \* the wall clock
    pc,          \* pc[p]: where request p stands in its handler
    frame,       \* frame[p]: the local variables of request p
    last,        \* the request completed by the latest step, with its response
    created,     \* history: create_blog requests answered 201
    nDeleted,    \* history: delete_blog requests answered 200
    deletedIds   \* history: ids for which a delete_blog was answered 200

vars == <<users, blogs, nextId, clock, pc, frame, last, created, nDeleted, deletedIds>>

\* ------------------------------------------------------- requests, responses
Req(op, tok, id, body) == [op |-> op, tok |-> tok, id |-> id, body |-> body]

\* jsonify(...), status: the payload is a list (no payload: the empty list).
Resp(status, message, payload) ==
    [status |-> status, message |-> message, payload |-> payload]

NoReq == Req("none", NoToken, BadId, NoBody)
NoLast == [req |-> NoReq, resp |-> Resp(0, "", <<>>), n |-> 0, calls |-> <<>>]

\* The exchange a step completes: calls are the driver calls the request made,
\* in order, and n is the number of documents its write matched (the driver's
\* inserted, matched_count or deleted_count), 0 without a write.
Done(req, resp, n, calls) == [req |-> req, resp |-> resp, n |-> n, calls |-> calls]

\* The locals of a request inside its handler: the request, the Blog instance
\* it loaded, the driver calls it has made, and (history) the number of users
\* documents there were when it arrived.
NoFrame == [req |-> NoReq, blog |-> NoBlog, calls |-> <<>>, since |-> 0]

\* ------------------------------------------------------- credential service
\* bcrypt.generate_password_hash: a salted one-way image of the plaintext.
generate_password_hash(password, salt) == [salt |-> salt, digest |-> <<salt, password>>]

\* bcrypt.check_password_hash: re-hash the candidate under the stored salt.
check_password_hash(hash, password) ==
    generate_password_hash(password, hash.salt).digest = hash.digest

\* create_access_token(identity): signed with SECRET_KEY, issued now.
create_access_token(identity, now) == [kind |-> "signed", sub |-> identity, iat |-> now]

\* What a client may send as its bearer token at time now.
TokensAt(now) ==
    {NoToken, ForgedToken}
        \cup {create_access_token(u, t) : u \in Usernames, t \in 0..now}

\* The same check without the signature verification.
jwt_required_accepts_forged(tok, now) ==
    CASE tok.kind = "none" -> "missing"
      [] now >= tok.iat + TokenTTL -> "expired"
      [] OTHER -> "ok"

\* The decorator's verdict: no Authorization header is "missing", a token that
\* does not decode under the secret is "invalid", a decoded token past its
\* expiry is "expired".
jwt_required(tok, now) ==
    CASE tok.kind = "none" -> "missing"
      [] tok.kind = "forged" -> "invalid"
      [] now >= tok.iat + TokenTTL -> "expired"
      [] OTHER -> "ok"

\* The response of the manager's default callback for a rejected request.
jwt_error(verdict) ==
    CASE verdict = "missing" -> Resp(401, "Missing Authorization Header", <<>>)
      [] verdict = "expired" -> Resp(401, "Token has expired", <<>>)
      [] OTHER -> Resp(422, "Signature verification failed", <<>>)

\* get_jwt_identity() inside a handler that jwt_required let through.
get_jwt_identity(tok) == tok.sub

\* ------------------------------------------------------------ identity store
Min(S) == CHOOSE x \in S : \A y \in S : x <= y

\* collection.find_one(filter): the first match in natural order, as a list
\* of at most one document (None is the empty list).
find_by_username(us, username) ==
    LET I == {i \in 1..Len(us) : us[i].username = username}
    IN IF I = {} THEN <<>> ELSE <<us[Min(I)]>>

\* The email lookup with its filter on the username field.
find_by_email_wrong_field(us, email) ==
    LET I == {i \in 1..Len(us) : us[i].username = email}
    IN IF I = {} THEN <<>> ELSE <<us[Min(I)]>>

\* User.find_by_email
find_by_email(us, email) ==
    LET I == {i \in 1..Len(us) : us[i].email = email}
    IN IF I = {} THEN <<>> ELSE <<us[Min(I)]>>

\* User(username, email, password).to_dict()
User(username, email, password, salt) ==
    [username |-> username, email |-> email,
     password |-> generate_password_hash(password, salt)]

\* Python truthiness of a value that is present in the body.
Truthy(v) == v # ""

\* ----------------------------------------------------------------- stepping
\* The step ends request p with this response.
Finish(p, req, resp, n, calls) ==
    /\ last' = Done(req, resp, n, frame[p].calls \o calls)
    /\ pc' = [pc EXCEPT ![p] = "idle"]
    /\ frame' = [frame EXCEPT ![p] = NoFrame]

\* The step leaves request p inside its handler, at label l.
Continue(p, l, req, blog, calls) ==
    /\ last' = NoLast
    /\ pc' = [pc EXCEPT ![p] = l]
    /\ frame' = [frame EXCEPT ![p] =
                    [req |-> req, blog |-> blog, calls |-> frame[p].calls \o calls,
                     since |-> IF pc[p] = "idle" THEN Len(users) ELSE frame[p].since]]

InRegister == {p \in Procs : pc[p] \in {"register_find_by_email", "register_save"}}

\* ----------------------------------------------------------------- register
\* The body checks of register: a 400 response, or nothing.
register_validate(body) ==
    IF body.username = MISSING \/ body.email = MISSING \/ body.password = MISSING
    THEN <<Resp(400, "Missing required fields", <<>>)>>
    ELSE IF ~(Truthy(body.username) /\ Truthy(body.email) /\ Truthy(body.password))
    THEN <<Resp(400, "All fields must be non-empty", <<>>)>>
    ELSE <<>>

\* POST /register up to and including User.find_by_username.
register(p) ==
    /\ pc[p] = "idle"
    /\ \E body \in RegisterBodies :
         LET u == body.username
             req == Req("register", NoToken, BadId, body)
             bad == register_validate(body)
         IN IF Len(bad) > 0
            THEN Finish(p, req, bad[1], 0, <<>>)
            ELSE IF Len(find_by_username(users, u)) > 0
            THEN Finish(p, req, Resp(400, "User already exists", <<>>), 0,
                        <<"users.find_one">>)
            ELSE /\ Len(users) + Cardinality(InRegister) < MaxUsers
                 /\ Continue(p, "register_find_by_email", req, NoBlog,
                             <<"users.find_one">>)
    /\ UNCHANGED <<users, blogs, nextId, clock, created, nDeleted, deletedIds>>

\* register: User.find_by_email, reached when the username lookup found nothing.
register_find_by_email(p) ==
    /\ pc[p] = "register_find_by_email"
    /\ LET req == frame[p].req
       IN IF Len(find_by_email(users, req.body.email)) > 0
          THEN Finish(p, req, Resp(400, "User already exists", <<>>), 0,
                      <<"users.find_one">>)
          ELSE Continue(p, "register_save", req, NoBlog, <<"users.find_one">>)
    /\ UNCHANGED <<users, blogs, nextId, clock, created, nDeleted, deletedIds>>

\* register: User(...).save(), then the token and the response.
register_save(p) ==
    /\ pc[p] = "register_save"
    /\ \E salt \in 1..NumSalts :
         LET req == frame[p].req
             user == User(req.body.username, req.body.email, req.body.password, salt)
         IN /\ users' = Append(users, user)
            /\ Finish(p, req,
                      Resp(200, "User registered successfully",
                           <<create_access_token(user.username, clock)>>), 1,
                      <<"users.insert_one">>)
    /\ UNCHANGED <<blogs, nextId, clock, created, nDeleted, deletedIds>>

\* -------------------------------------------------------------------- login
login_validate(body) ==
    IF body.username = MISSING \/ body.password = MISSING
    THEN <<Resp(400, "Missing required fields", <<>>)>>
    ELSE IF ~(Truthy(body.username) /\ Truthy(body.password))
    THEN <<Resp(400, "Both username and password must be provided", <<>>)>>
    ELSE <<>>

\* The lookup and the hash check of login, given the store it reads.
login_response(us, username, password, now) ==
    LET user == find_by_username(us, username)
    IN IF Len(user) > 0 /\ check_password_hash(user[1].password, password)
       THEN Resp(200, "Login successful", <<create_access_token(user[1].username, now)>>)
       ELSE Resp(401, "Invalid credentials", <<>>)

\* POST /login: one driver call (find_one).
login(p) ==
    /\ pc[p] = "idle"
    /\ \E body \in LoginBodies :
         LET u == body.username
             w == body.password
             req == Req("login", NoToken, BadId, body)
             bad == login_validate(body)
         IN IF Len(bad) > 0
            THEN Finish(p, req, bad[1], 0, <<>>)
            ELSE Finish(p, req, login_response(users, u, w, clock), 0,
                        <<"users.find_one">>)
    /\ UNCHANGED <<users, blogs, nextId, clock, created, nDeleted, deletedIds>>

\* --------------------------------------------------------------- post store
\* The id check letting every string through.
is_valid_accepts_all(id) == TRUE

\* ObjectId.is_valid(id): whether ObjectId(id) parses.
is_valid(id) == id.wf

\* ObjectId(id) of a string that parses, and str(oid).
ObjectId(id) == id.n
str(oid) == [wf |-> TRUE, n |-> oid]

\* The constructor call preferring an 'author' the body carries.
Blog_author_from_body(body, identity, now) ==
    [_id |-> 0, title |-> body.title, content |-> body.content,
     author |-> IF body.author = MISSING THEN identity ELSE body.author,
     timestamp |-> now]

\* Blog(title, content, author, timestamp) before save(): no _id yet.
Blog(body, identity, now) ==
    [_id |-> 0, title |-> body.title, content |-> body.content,
     author |-> identity, timestamp |-> now]

\* Blog.to_dict(): the output representation, the id stringified.
to_dict(blog) ==
    [_id |-> str(blog._id), title |-> blog.title, content |-> blog.content,
     author |-> blog.author, timestamp |-> blog.timestamp]

Matching(bs, oid) == {i \in 1..Len(bs) : bs[i]._id = oid}

\* Blog.find_by_id: [raised |-> ObjectId(id) threw, doc |-> the document found].
find_by_id(bs, id) ==
    IF ~id.wf
    THEN [raised |-> TRUE, doc |-> <<>>]
    ELSE LET I == Matching(bs, ObjectId(id))
         IN [raised |-> FALSE, doc |-> IF I = {} THEN <<>> ELSE <<bs[Min(I)]>>]

\* Blog.find_all(), each turned to its output representation.
find_all(bs) == [i \in 1..Len(bs) |-> to_dict(bs[i])]

\* insert_one(to_dict(exclude_id=True)): the driver assigns the _id.
insert_one(bs, blog, oid) == Append(bs, [blog EXCEPT !._id = oid])

\* A $set document that stamps the post with the caller and the time.
update_data_restamps(blog, identity, now) ==
    [title |-> blog.title, content |-> blog.content,
     author |-> identity, timestamp |-> now]

\* The $set document of Blog.update(): to_dict() without '_id' (the caller and
\* the time are not read).
update_data(blog, identity, now) ==
    [title |-> blog.title, content |-> blog.content,
     author |-> blog.author, timestamp |-> blog.timestamp]

\* update_one({'_id': oid}, {'$set': data}): the first match, no upsert.
update_one(bs, oid, data) ==
    LET I == Matching(bs, oid)
    IN IF I = {} THEN bs
       ELSE [bs EXCEPT ![Min(I)] =
                [_id |-> bs[Min(I)]._id, title |-> data.title, content |-> data.content,
                 author |-> data.author, timestamp |-> data.timestamp]]

\* A delete that removes nothing.
delete_one_keeps(bs, oid) == bs

\* delete_one({'_id': oid}): the first match.
delete_one(bs, oid) ==
    LET I == Matching(bs, oid)
    IN IF I = {} THEN bs
       ELSE [i \in 1..(Len(bs) - 1) |-> IF i < Min(I) THEN bs[i] ELSE bs[i + 1]]

\* matched_count / deleted_count of a write on oid.
Matched(bs, oid) == IF Matching(bs, oid) = {} THEN 0 ELSE 1

\* ------------------------------------------------------------ blog handlers
blog_validate(body) ==
    IF body.title = MISSING \/ body.content = MISSING
    THEN <<Resp(400, "Missing required fields", <<>>)>>
    ELSE IF ~(Truthy(body.title) /\ Truthy(body.content))
    THEN <<Resp(400, "Both title and content must be provided", <<>>)>>
    ELSE <<>>

\* The id check and lookup shared by get_blog, update_blog and delete_blog:
\* an early response, or nothing when the post was found.
lookup_response(bs, id) ==
    IF ~is_valid(id)
    THEN <<Resp(400, "Invalid blog ID format", <<>>)>>
    ELSE IF find_by_id(bs, id).raised
    THEN <<Resp(400, "400 Bad Request: Invalid blog ID format", <<>>)>>
    ELSE IF Len(find_by_id(bs, id).doc) = 0
    THEN <<Resp(404, "Blog not found", <<>>)>>
    ELSE <<>>

\* The driver calls of that check: find_one, unless the id never reached it.
lookup_calls(id) ==
    IF is_valid(id) /\ ~find_by_id(<<>>, id).raised THEN <<"blogs.find_one">> ELSE <<>>

\* The early returns with the body checked before the id and the lookup.
update_blog_checks_body_first(bs, id, body) ==
    IF Len(blog_validate(body)) > 0 THEN blog_validate(body) ELSE lookup_response(bs, id)

\* Every early return of update_blog, in the order the handler takes them.
update_blog_checks(bs, id, body) ==
    IF Len(lookup_response(bs, id)) > 0 THEN lookup_response(bs, id) ELSE blog_validate(body)

\* GET /
hello_world(p) ==
    /\ pc[p] = "idle"
    /\ Finish(p, Req("hello_world", NoToken, BadId, NoBody),
              Resp(200, "API server running successfully", <<>>), 0, <<>>)
    /\ UNCHANGED <<users, blogs, nextId, clock, created, nDeleted, deletedIds>>

\* GET /blogs: one driver call (find).
get_blogs(p, in) ==
    /\ pc[p] = "idle"
    /\ \E tok \in in.toks :
         LET req == Req("get_blogs", tok, BadId, NoBody)
             verdict == jwt_required(tok, clock)
         IN IF verdict # "ok"
            THEN Finish(p, req, jwt_error(verdict), 0, <<>>)
            ELSE Finish(p, req, Resp(200, "", find_all(blogs)), 0, <<"blogs.find">>)
    /\ UNCHANGED <<users, blogs, nextId, clock, created, nDeleted, deletedIds>>

\* GET /blogs/<id>: one driver call (find_one).
get_blog(p, in) ==
    /\ pc[p] = "idle"
    /\ \E tok \in in.toks, id \in in.ids :
         LET req == Req("get_blog", tok, id, NoBody)
             verdict == jwt_required(tok, clock)
             early == lookup_response(blogs, id)
         IN IF verdict # "ok"
            THEN id = ProbeId /\ Finish(p, req, jwt_error(verdict), 0, <<>>)
            ELSE IF Len(early) > 0
            THEN Finish(p, req, early[1], 0, lookup_calls(id))
            ELSE Finish(p, req, Resp(200, "", <<to_dict(find_by_id(blogs, id).doc[1])>>),
                        0, lookup_calls(id))
    /\ UNCHANGED <<users, blogs, nextId, clock, created, nDeleted, deletedIds>>

\* POST /blogs: one driver call (insert_one).
create_blog(p, in) ==
    /\ pc[p] = "idle"
    /\ \E tok \in in.toks, body \in in.creates :
         LET req == Req("create_blog", tok, BadId, body)
             verdict == jwt_required(tok, clock)
             bad == blog_validate(body)
         IN IF verdict # "ok"
            THEN /\ body = ProbeBody
                 /\ Finish(p, req, jwt_error(verdict), 0, <<>>)
                 /\ UNCHANGED <<blogs, nextId, created>>
            ELSE IF Len(bad) > 0
            THEN Finish(p, req, bad[1], 0, <<>>) /\ UNCHANGED <<blogs, nextId, created>>
            ELSE /\ nextId <= MaxBlogs
                 /\ blogs' = insert_one(blogs, Blog(body, get_jwt_identity(tok), clock), nextId)
                 /\ nextId' = nextId + 1
                 /\ created' = created + 1
                 /\ Finish(p, req, Resp(201, "Blog created successfully", <<>>), 1,
                           <<"blogs.insert_one">>)
    /\ UNCHANGED <<users, clock, nDeleted, deletedIds>>

\* PUT /blogs/<id> up to the assignments to blog.title and blog.content.
update_blog(p, in) ==
    /\ pc[p] = "idle"
    /\ \E tok \in in.toks, id \in in.ids, body \in in.bodies :
         LET req == Req("update_blog", tok, id, body)
             verdict == jwt_required(tok, clock)
             early == update_blog_checks(blogs, id, body)
         IN IF verdict # "ok"
            THEN /\ id = ProbeId
                 /\ body = ProbeBody
                 /\ Finish(p, req, jwt_error(verdict), 0, <<>>)
            ELSE IF Len(early) > 0
            THEN Finish(p, req, early[1], 0, lookup_calls(id))
            ELSE Continue(p, "update_blog_write", req,
                          [find_by_id(blogs, id).doc[1] EXCEPT
                               !.title = body.title, !.content = body.content],
                          lookup_calls(id))
    /\ UNCHANGED <<users, blogs, nextId, clock, created, nDeleted, deletedIds>>

\* update_blog: blog.update(), then the response.
update_blog_write(p) ==
    /\ pc[p] = "update_blog_write"
    /\ LET req == frame[p].req
           blog == frame[p].blog
       IN /\ blogs' = update_one(blogs, blog._id,
                                 update_data(blog, get_jwt_identity(req.tok), clock))
          /\ Finish(p, req, Resp(200, "Blog updated successfully", <<>>),
                    Matched(blogs, blog._id), <<"blogs.update_one">>)
    /\ UNCHANGED <<users, nextId, clock, created, nDeleted, deletedIds>>

\* DELETE /blogs/<id> up to and including Blog.find_by_id.
delete_blog(p, in) ==
    /\ pc[p] = "idle"
    /\ \E tok \in in.toks, id \in in.ids :
         LET req == Req("delete_blog", tok, id, NoBody)
             verdict == jwt_required(tok, clock)
             early == lookup_response(blogs, id)
         IN IF verdict # "ok"
            THEN id = ProbeId /\ Finish(p, req, jwt_error(verdict), 0, <<>>)
            ELSE IF Len(early) > 0
            THEN Finish(p, req, early[1], 0, lookup_calls(id))
            ELSE Continue(p, "delete_blog_write", req, find_by_id(blogs, id).doc[1],
                          lookup_calls(id))
    /\ UNCHANGED <<users, blogs, nextId, clock, created, nDeleted, deletedIds>>

\* delete_blog: blog.delete(), then the response.
delete_blog_write(p) ==
    /\ pc[p] = "delete_blog_write"
    /\ LET req == frame[p].req
           blog == frame[p].blog
       IN /\ blogs' = delete_one(blogs, blog._id)
          /\ nDeleted' = nDeleted + 1
          /\ deletedIds' = deletedIds \cup {blog._id}
          /\ Finish(p, req, Resp(200, "Blog deleted successfully", <<>>),
                    Matched(blogs, blog._id), <<"blogs.delete_one">>)
    /\ UNCHANGED <<users, nextId, clock, created>>

\* datetime.now() moves on.
Tick ==
    /\ clock < MaxClock
    /\ clock' = clock + 1
    /\ last' = NoLast
    /\ UNCHANGED <<users, blogs, nextId, pc, frame, created, nDeleted, deletedIds>>

\* ------------------------------------------------------------ specification
Init ==
    /\ users = <<>>
    /\ blogs = <<>>
    /\ nextId = 1
    /\ clock = 0
    /\ pc = [p \in Procs |-> "idle"]
    /\ frame = [p \in Procs |-> NoFrame]
    /\ last = NoLast
    /\ created = 0
    /\ nDeleted = 0
    /\ deletedIds = {}

\* What the requests of a run are drawn from: any request, or only requests
\* that are well formed and carry a fresh token.
AnyRequest ==
    [toks |-> TokensAt(clock), ids |-> PathIds,
     bodies |-> BlogBodies, creates |-> CreateBodies]

GoodRequest ==
    [toks |-> {create_access_token(u, clock) : u \in Usernames},
     ids |-> PathIds \ {BadId},
     bodies |-> GoodBlogBodies, creates |-> GoodBlogBodies]

\* The routes that touch only the users collection, requests interleaved at
\* every driver call.
AuthNext ==
    \/ Tick
    \/ \E p \in Procs : hello_world(p)
    \/ \E p \in Procs : register(p)
    \/ \E p \in Procs : register_find_by_email(p)
    \/ \E p \in Procs : register_save(p)
    \/ \E p \in Procs : login(p)

AuthSpec == Init /\ [][AuthNext]_vars

\* The routes behind jwt_required, which touch only the blogs collection (the
\* token check is a function of the token and the clock and reads no store),
\* requests interleaved at every driver call.
BlogNext ==
    \/ Tick
    \/ \E p \in Procs : get_blogs(p, AnyRequest)
    \/ \E p \in Procs : get_blog(p, AnyRequest)
    \/ \E p \in Procs : create_blog(p, AnyRequest)
    \/ \E p \in Procs : update_blog(p, AnyRequest)
    \/ \E p \in Procs : update_blog_write(p)
    \/ \E p \in Procs : delete_blog(p, AnyRequest)
    \/ \E p \in Procs : delete_blog_write(p)

\* The whole server: any request on any route, interleaved at every driver
\* call. The two halves share no collection, and the specifications below
\* take them apart.
Next == AuthNext \/ BlogNext

Spec == Init /\ [][Next]_vars

\* The blog routes with one request at a time: a step of p is taken only
\* while no other request is inside its handler.
Alone(p) == \A q \in Procs \ {p} : pc[q] = "idle"

SeqNext ==
    \/ Tick
    \/ \E p \in Procs : Alone(p) /\ get_blogs(p, AnyRequest)
    \/ \E p \in Procs : Alone(p) /\ get_blog(p, AnyRequest)
    \/ \E p \in Procs : Alone(p) /\ create_blog(p, AnyRequest)
    \/ \E p \in Procs : Alone(p) /\ update_blog(p, AnyRequest)
    \/ \E p \in Procs : Alone(p) /\ update_blog_write(p)
    \/ \E p \in Procs : Alone(p) /\ delete_blog(p, AnyRequest)
    \/ \E p \in Procs : Alone(p) /\ delete_blog_write(p)

SeqSpec == Init /\ [][SeqNext]_vars

\* The blog routes with requests interleaved at every driver call, every
\* request well formed and carrying a fresh token.
RaceNext ==
    \/ Tick
    \/ \E p \in Procs : get_blogs(p, GoodRequest)
    \/ \E p \in Procs : get_blog(p, GoodRequest)
    \/ \E p \in Procs : create_blog(p, GoodRequest)
    \/ \E p \in Procs : update_blog(p, GoodRequest)
    \/ \E p \in Procs : update_blog_write(p)
    \/ \E p \in Procs : delete_blog(p, GoodRequest)
    \/ \E p \in Procs : delete_blog_write(p)

RaceSpec == Init /\ [][RaceNext]_vars

\* ------------------------------------------------------------------- claims
\* The step completes a request of p. (A handler of one step leaves pc as it
\* was; any idle p then stands for the request.)
Finishes(p) == last' # NoLast /\ pc'[p] = "idle" /\ (pc[p] # "idle" \/ pc' = pc)

\* The users documents there were when the request p is in arrived: users only
\* grows, so they are a prefix of it.
UsersAtArrival(p) == SubSeq(users, 1, IF pc[p] = "idle" THEN Len(users) ELSE frame[p].since)

Present(v) == v # MISSING /\ v # ""

\* C1: no two stored users share a username and no two share an email, in
\* every reachable state, register requests interleaved at their store calls.
C1_UsersUnique ==
    \A i, j \in 1..Len(users) :
        i # j => users[i].username # users[j].username /\ users[i].email # users[j].email

\* C2: a register request with all three fields present and non-empty whose
\* username or email is that of a user already stored when it arrives is
\* answered 400 'User already exists' and inserts nothing.
C2_DuplicateRejected ==
    [][\A p \in Procs :
         LET body == last'.req.body
             before == UsersAtArrival(p)
         IN (/\ Finishes(p)
             /\ last'.req.op = "register"
             /\ Present(body.username) /\ Present(body.email) /\ Present(body.password)
             /\ \E i \in 1..Len(before) :
                    before[i].username = body.username \/ before[i].email = body.email)
            => /\ last'.resp = Resp(400, "User already exists", <<>>)
               /\ users' = users
               /\ \A k \in 1..Len(last'.calls) : last'.calls[k] # "users.insert_one"]_vars

\* A duplicate by email alone (the username is new) was turned away.
C2_Witness ==
    /\ last.req.op = "register"
    /\ last.resp.status = 400
    /\ last.resp.message = "User already exists"
    /\ \E i \in 1..Len(users) : users[i].email = last.req.body.email
    /\ \A i \in 1..Len(users) : users[i].username # last.req.body.username

\* C3: a login with non-empty username and password is answered 200 with a
\* token for that username exactly when some stored user has that username
\* and a hash the password verifies against (so after a successful
\* register(u, e, p), login(u, p) succeeds), and 401 'Invalid credentials'
\* otherwise.
C3_LoginIffCredentials ==
    [][LET body == last'.req.body
       IN (last'.req.op = "login" /\ Present(body.username) /\ Present(body.password))
          => IF \E i \in 1..Len(users) :
                    /\ users[i].username = body.username
                    /\ check_password_hash(users[i].password, body.password)
             THEN /\ last'.resp.status = 200
                  /\ Len(last'.resp.payload) = 1
                  /\ last'.resp.payload[1].sub = body.username
             ELSE last'.resp = Resp(401, "Invalid credentials", <<>>)]_vars

\* The token is one the server signed and has not expired at time now.
LiveToken(tok, now) == tok.kind = "signed" /\ now < tok.iat + TokenTTL

\* The step takes a request in and answers it (the handler's only step, or an
\* early return of its first).
Answers(op) == pc' = pc /\ last' # NoLast /\ last'.req.op = op

\* The step takes the request of p past its handler's first store call.
Enters(p) == pc[p] = "idle" /\ pc'[p] # "idle"

Ids(bs) == {bs[i]._id : i \in 1..Len(bs)}

\* C4: a create-post answered 201 appends exactly one post, whose author is
\* the subject of the caller's verified token and whose title and content are
\* the body's; an 'author' in the body has no influence.
C4_CreateAuthorIsCaller ==
    [][(last'.req.op = "create_blog" /\ last'.resp.status = 201)
       => /\ LiveToken(last'.req.tok, clock)
          /\ Len(blogs') = Len(blogs) + 1
          /\ SubSeq(blogs', 1, Len(blogs)) = blogs
          /\ blogs'[Len(blogs')].author = last'.req.tok.sub
          /\ blogs'[Len(blogs')].title = last'.req.body.title
          /\ blogs'[Len(blogs')].content = last'.req.body.content]_vars

\* alice created a post whose body named bob as its author.
C4_Witness ==
    /\ last.req.op = "create_blog"
    /\ last.resp.status = 201
    /\ last.req.body.author = "bob"
    /\ last.req.tok.sub = "alice"
    /\ blogs[Len(blogs)].author = "alice"

\* C5: for an authenticated get, update or delete, an id that is not a valid
\* store identifier is answered 400 'Invalid blog ID format' with no store call
\* made, a valid id of no stored post is answered 404 'Blog not found', and in
\* both cases blogs is unchanged.
C5_BadIdIs400MissingIs404 ==
    [][/\ \A op \in {"get_blog", "update_blog", "delete_blog"} :
            (Answers(op) /\ LiveToken(last'.req.tok, clock))
            => /\ ~last'.req.id.wf
                  => /\ last'.resp = Resp(400, "Invalid blog ID format", <<>>)
                     /\ last'.calls = <<>>
                     /\ blogs' = blogs
               /\ (last'.req.id.wf /\ last'.req.id.n \notin Ids(blogs))
                  => /\ last'.resp = Resp(404, "Blog not found", <<>>)
                     /\ blogs' = blogs
       /\ \A p \in Procs :
            Enters(p) => frame'[p].req.id.wf /\ frame'[p].req.id.n \in Ids(blogs)]_vars

\* A malformed id was answered 400 while posts were stored.
C5_Witness ==
    /\ last.req.op = "delete_blog"
    /\ ~last.req.id.wf
    /\ last.resp.status = 400
    /\ LiveToken(last.req.tok, clock)
    /\ Len(blogs) > 0

\* C6: an update-post answered 200 changes nothing but the title and content
\* of the addressed post, whoever the caller is, and every other post stays as
\* it was; over any step, a post that is still stored keeps its id, author and
\* creation timestamp.
C6_UpdateKeepsIdAuthorTimestamp ==
    [][/\ (last'.req.op = "update_blog" /\ last'.resp.status = 200)
          => /\ Len(blogs') = Len(blogs)
             /\ \A i \in 1..Len(blogs) :
                  IF blogs[i]._id = last'.req.id.n
                  THEN blogs'[i] = [blogs[i] EXCEPT !.title = last'.req.body.title,
                                                    !.content = last'.req.body.content]
                  ELSE blogs'[i] = blogs[i]
       /\ \A i \in 1..Len(blogs), j \in 1..Len(blogs') :
            blogs[i]._id = blogs'[j]._id
            => /\ blogs[i].author = blogs'[j].author
               /\ blogs[i].timestamp = blogs'[j].timestamp]_vars

\* A caller other than the author updated one of two posts, after the clock
\* had moved on from the post's creation.
C6_Witness ==
    /\ last.req.op = "update_blog"
    /\ last.resp.status = 200
    /\ last.n = 1
    /\ Len(blogs) = 2
    /\ \E i \in 1..Len(blogs) :
         /\ blogs[i]._id = last.req.id.n
         /\ blogs[i].author # last.req.tok.sub
         /\ blogs[i].title = last.req.body.title
         /\ blogs[i].timestamp < clock

BlogOps == {"get_blogs", "get_blog", "create_blog", "update_blog", "delete_blog"}

\* What a request without a live token gets, whatever the route: nothing is
\* returned, no store call is made, both collections stay as they were, and no
\* such request gets past the check.
TurnedAway(status) ==
    /\ last'.resp.status = status
    /\ last'.resp.payload = <<>>
    /\ last'.calls = <<>>
    /\ blogs' = blogs
    /\ users' = users

C8_SequentialLifecycle ==
    [][/\ (last'.req.op = "create_blog" /\ last'.resp.status = 201)
          => \E i \in 1..Len(blogs') :
               /\ blogs'[i].title = last'.req.body.title
               /\ blogs'[i].content = last'.req.body.content
               /\ blogs'[i]._id \notin Ids(blogs) \cup deletedIds
       /\ (last'.req.op = "get_blogs" /\ last'.resp.status = 200)
          => /\ Len(last'.resp.payload) = created - nDeleted
             /\ Len(last'.resp.payload) = Len(blogs)
             /\ \A i \in 1..Len(blogs) :
                  /\ last'.resp.payload[i]._id.n = blogs[i]._id
                  /\ last'.resp.payload[i].title = blogs[i].title
                  /\ last'.resp.payload[i].content = blogs[i].content
       /\ (last'.req.op = "update_blog" /\ last'.resp.status = 200)
          => \E i \in 1..Len(blogs') :
               /\ blogs'[i]._id = last'.req.id.n
               /\ blogs'[i].title = last'.req.body.title
               /\ blogs'[i].content = last'.req.body.content
       /\ (last'.req.op = "get_blog" /\ last'.resp.status = 200)
          => \E i \in 1..Len(blogs) :
               /\ blogs[i]._id = last'.req.id.n
               /\ last'.resp.payload[1]._id = last'.req.id
               /\ last'.resp.payload[1].title = blogs[i].title
               /\ last'.resp.payload[1].content = blogs[i].content
       /\ \A op \in {"get_blog", "update_blog", "delete_blog"} :
            (/\ Answers(op)
             /\ LiveToken(last'.req.tok, clock)
             /\ last'.req.id.wf
             /\ last'.req.id.n \in deletedIds)
            => last'.resp.status = 404
       /\ \A p \in Procs : Enters(p) => frame'[p].req.id.n \notin deletedIds
       /\ Ids(blogs') \cap deletedIds' = {}]_vars

\* After one post was deleted and another created, a get on the deleted id
\* was answered 404.
C8_Witness ==
    /\ last.req.op = "get_blog"
    /\ last.req.id.n \in deletedIds
    /\ last.resp.status = 404
    /\ created = 2
    /\ Len(blogs) = 1

\* A body update_blog turns down.
BadBlogBody(body) == ~Present(body.title) \/ ~Present(body.content)

\* C9: update-post checks the id, then looks the post up, then checks the
\* body: a valid id of no stored post is answered 404 even with a bad body,
\* and a bad body for a stored post is answered 400 with the post untouched.
C9_UpdateChecksInOrder ==
    [][/\ (Answers("update_blog") /\ LiveToken(last'.req.tok, clock) /\ last'.req.id.wf)
          => /\ last'.req.id.n \notin Ids(blogs) => last'.resp.status = 404
             /\ (last'.req.id.n \in Ids(blogs) /\ BadBlogBody(last'.req.body))
                => last'.resp.status = 400 /\ blogs' = blogs
       /\ \A p \in Procs :
            (Enters(p) /\ frame'[p].req.op = "update_blog")
            => ~BadBlogBody(frame'[p].req.body)]_vars

\* An update with no title, on an id that no stored post has, was answered 404
\* while another post was stored.
C9_Witness ==
    /\ last.req.op = "update_blog"
    /\ last.req.body.title = MISSING
    /\ last.req.id.wf
    /\ last.resp.status = 404
    /\ Len(blogs) > 0

\* C10: under every interleaving, an update-post or delete-post answered 200
\* made a write that matched a stored post.
C10_WritesMatchADocument ==
    (last.req.op \in {"update_blog", "delete_blog"} /\ last.resp.status = 200)
    => last.n = 1

====
